---- MODULE Spec2Model ----
(***************************************************************************)
(* Model of qstrader/asset/universe/dynamic.py: DynamicActiveDate,         *)
(* DynamicActiveDates and DynamicUniverse.                                 *)
(*                                                                         *)
(* A pd.Timestamp is modelled by an integer instant; the code only ever    *)
(* compares timestamps (<, >, >=), so the order is all that matters.       *)
(* An Optional / Union value is a record tagged with its Python type.      *)
(* A dict is a sequence of (asset, asset_date) entries with distinct keys, *)
(* in insertion order, which is the order .items() iterates in.            *)
(***************************************************************************)
EXTENDS Integers, Sequences, FiniteSets, TLC

VARIABLES
    asset_dates,  \* DynamicUniverse.asset_dates
    call,         \* the last method call made: its receiver, argument and return value
    seen          \* observer: one get_assets call made before the last, kept for comparison

vars == <<asset_dates, call, seen>>

----------------------------------------------------------------------------
(* Bounds *)

\* Configured timestamps are the odd instants 1, 3, .., 2 * MaxTime + 1; a
\* query may fall on one, between two, before the first and after the last.
MaxTime == 1

\* Size of a universe: its number of entries plus its number of
\* DynamicActiveDate objects.
MaxSize == 3

Timestamps == {2 * k + 1 : k \in 0..MaxTime}

QueryTimes == 0..(2 * MaxTime + 2)

Assets == {"AAA", "BBB"}

----------------------------------------------------------------------------
(* Values *)

None == [type |-> "NoneType"]

Timestamp(value) == [type |-> "Timestamp", value |-> value]

\* DynamicActiveDate.__init__: stores start and end as given, no validation.
DynamicActiveDate(start, end) == [start |-> start, end |-> end]

\* DynamicActiveDates.__init__: stores the list as given.
DynamicActiveDates(dynamic_active_dates) ==
    [type |-> "DynamicActiveDates", dynamic_active_dates |-> dynamic_active_dates]

\* DynamicUniverse.__init__: stores the map as given.
DynamicUniverse(entries) == entries

Entry(asset, asset_date) == [asset |-> asset, asset_date |-> asset_date]

----------------------------------------------------------------------------
(* DynamicActiveDate.active_on_date *)

\* Variants of active_on_date that differ from the code in one comparison.
active_on_date_start_exclusive(self, dt) ==
    IF dt <= self.start THEN FALSE
    ELSE IF self.end # None THEN dt > self.end.value
    ELSE TRUE

active_on_date_from_end(self, dt) ==
    IF dt < self.start THEN FALSE
    ELSE IF self.end # None THEN dt >= self.end.value
    ELSE TRUE

active_on_date_end_first(self, dt) ==
    IF self.end # None THEN dt > self.end.value
    ELSE IF dt < self.start THEN FALSE
    ELSE TRUE

active_on_date_until_end(self, dt) ==
    IF dt < self.start THEN FALSE
    ELSE IF self.end # None THEN dt <= self.end.value
    ELSE TRUE

active_on_date(self, dt) ==
    IF dt < self.start THEN FALSE
    ELSE IF self.end # None THEN dt > self.end.value
    ELSE TRUE

----------------------------------------------------------------------------
(* DynamicActiveDates.active_on_date *)

\* The for loop from position i on: returns at the first active interval.
RECURSIVE any_active_from(_, _, _)
any_active_from(dates, dt, i) ==
    IF i > Len(dates) THEN FALSE
    ELSE IF active_on_date(dates[i], dt) THEN TRUE
    ELSE any_active_from(dates, dt, i + 1)

\* Variant: the loop returns the first interval's answer.
dates_active_on_date_first_only(self, dt) ==
    IF Len(self.dynamic_active_dates) = 0 THEN FALSE
    ELSE active_on_date(self.dynamic_active_dates[1], dt)

dates_active_on_date(self, dt) ==
    any_active_from(self.dynamic_active_dates, dt, 1)

----------------------------------------------------------------------------
(* DynamicUniverse *)

\* Variant: the threshold comparison is strict.
assess_asset_date_strict(dt, asset_date) ==
    IF asset_date = None THEN FALSE
    ELSE IF asset_date.type = "Timestamp" THEN dt > asset_date.value
    ELSE dates_active_on_date(asset_date, dt)

_assess_asset_date(dt, asset_date) ==
    IF asset_date = None THEN FALSE
    ELSE IF asset_date.type = "Timestamp" THEN dt >= asset_date.value
    ELSE dates_active_on_date(asset_date, dt)

\* The list comprehension from entry i on.
RECURSIVE assets_from(_, _, _)
assets_from(entries, dt, i) ==
    IF i > Len(entries) THEN <<>>
    ELSE IF _assess_asset_date(dt, entries[i].asset_date)
         THEN <<entries[i].asset>> \o assets_from(entries, dt, i + 1)
         ELSE assets_from(entries, dt, i + 1)

\* Variant: the comprehension has no filter.
get_assets_unfiltered(self, dt) ==
    [i \in 1..Len(self) |-> self[i].asset]

get_assets(self, dt) == assets_from(self, dt, 1)

----------------------------------------------------------------------------
(* The universes the model starts from *)

OptionalTimestamps == {None} \cup {Timestamp(d) : d \in Timestamps}

Intervals == {DynamicActiveDate(s, e) : s \in Timestamps, e \in OptionalTimestamps}

IntervalLists(n) == UNION {[1..k -> Intervals] : k \in 0..n}

\* AssetDateType values holding at most n DynamicActiveDate objects.
AssetDateTypes(n) ==
    IF n < 0 THEN {}
    ELSE OptionalTimestamps
         \cup {DynamicActiveDates(q) : q \in IntervalLists(n)}

NumDates(asset_date) ==
    IF asset_date.type = "DynamicActiveDates"
    THEN Len(asset_date.dynamic_active_dates)
    ELSE 0

RECURSIVE UniversesOver(_, _)
\* Maps with distinct keys drawn from keys, of size at most n.
UniversesOver(keys, n) ==
    {<<>>} \cup
    UNION {
        UNION {
            {<<Entry(a, r)>> \o rest : rest \in UniversesOver(keys \ {a}, n - 1 - NumDates(r))}
            : r \in AssetDateTypes(n - 1) }
        : a \in keys }

Universes == {DynamicUniverse(u) : u \in UniversesOver(Assets, MaxSize)}

\* The end-to-end scenario; dates are written YYYYMMDD.
ScenarioUniverse ==
    DynamicUniverse(<<
        Entry("AAA", Timestamp(20200101)),
        Entry("BBB", None),
        Entry("CCC", DynamicActiveDates(<<
            DynamicActiveDate(20200601, Timestamp(20200630)),
            DynamicActiveDate(20210101, None) >>)) >>)

ScenarioTimes ==
    {20191231, 20200101, 20200601, 20200630, 20200701, 20210101, 20210601}

----------------------------------------------------------------------------
(* State machine *)

NoCall == [op |-> "none"]

Init ==
    /\ asset_dates \in Universes
    /\ call = NoCall
    /\ seen = NoCall

ScenarioInit ==
    /\ asset_dates = ScenarioUniverse
    /\ call = NoCall
    /\ seen = NoCall

IsDates(i) ==
    /\ i \in 1..Len(asset_dates)
    /\ asset_dates[i].asset_date.type = "DynamicActiveDates"

\* interval.active_on_date(dt) on the j-th interval of the i-th entry
ActiveOnDate(i, j, dt) ==
    /\ IsDates(i)
    /\ j \in 1..Len(asset_dates[i].asset_date.dynamic_active_dates)
    /\ LET self == asset_dates[i].asset_date.dynamic_active_dates[j] IN
       call' = [op |-> "DynamicActiveDate.active_on_date", self |-> self,
                dt |-> dt, ret |-> active_on_date(self, dt)]
    /\ UNCHANGED <<asset_dates, seen>>

\* dates.active_on_date(dt) on the interval set of the i-th entry
DatesActiveOnDate(i, dt) ==
    /\ IsDates(i)
    /\ LET self == asset_dates[i].asset_date IN
       call' = [op |-> "DynamicActiveDates.active_on_date", self |-> self,
                dt |-> dt, ret |-> dates_active_on_date(self, dt)]
    /\ UNCHANGED <<asset_dates, seen>>

\* Keeps only the entries active at dt.
RECURSIVE active_entries_from(_, _, _)
active_entries_from(entries, dt, i) ==
    IF i > Len(entries) THEN <<>>
    ELSE IF _assess_asset_date(dt, entries[i].asset_date)
         THEN <<entries[i]>> \o active_entries_from(entries, dt, i + 1)
         ELSE active_entries_from(entries, dt, i + 1)

\* Variant: the query drops the inactive entries from the map.
GetAssetsPruning(dt, remember) ==
    /\ call' = [op |-> "DynamicUniverse.get_assets", self |-> asset_dates,
                dt |-> dt, ret |-> get_assets(asset_dates, dt)]
    /\ seen' = IF remember /\ call.op = "DynamicUniverse.get_assets" THEN call ELSE seen
    /\ asset_dates' = active_entries_from(asset_dates, dt, 1)

\* universe.get_assets(dt); the observer may first move the previous get_assets
\* call into seen, so that seen is always a call made before this one
GetAssets(dt, remember) ==
    /\ call' = [op |-> "DynamicUniverse.get_assets", self |-> asset_dates,
                dt |-> dt, ret |-> get_assets(asset_dates, dt)]
    /\ seen' = IF remember /\ call.op = "DynamicUniverse.get_assets" THEN call ELSE seen
    /\ UNCHANGED asset_dates

Probes(times) ==
    \/ \E dt \in times, i \in 1..Len(asset_dates) : DatesActiveOnDate(i, dt)
    \/ \E dt \in times, i \in 1..Len(asset_dates), j \in 1..MaxSize :
           ActiveOnDate(i, j, dt)

\* Every method of the three classes, called on the objects the universe holds.
Next ==
    \/ \E dt \in QueryTimes : GetAssets(dt, FALSE)
    \/ Probes(QueryTimes)

Spec == Init /\ [][Next]_vars

\* A universe queried any number of times, with the observer at work.
QueryNext == \E dt \in QueryTimes, remember \in BOOLEAN : GetAssets(dt, remember)

QuerySpec == Init /\ [][QueryNext]_vars

\* The end-to-end scenario, queried and probed at its own dates.
ScenarioNext ==
    \/ \E dt \in ScenarioTimes, remember \in BOOLEAN : GetAssets(dt, remember)
    \/ Probes(ScenarioTimes)

ScenarioSpec == ScenarioInit /\ [][ScenarioNext]_vars

----------------------------------------------------------------------------
(* Properties *)

IsGetAssets(c) == c.op = "DynamicUniverse.get_assets"

IsDatesCall(c) == c.op = "DynamicActiveDates.active_on_date"

IsDateCall(c) == c.op = "DynamicActiveDate.active_on_date"

Members(list) == {list[k] : k \in 1..Len(list)}

Position(asset) == CHOOSE i \in 1..Len(asset_dates) : asset_dates[i].asset = asset

\* The inclusion rule as the contract words it.
Included(asset_date, dt) ==
    CASE asset_date.type = "NoneType" -> FALSE
      [] asset_date.type = "Timestamp" -> dt >= asset_date.value
      [] asset_date.type = "DynamicActiveDates" -> dates_active_on_date(asset_date, dt)

\* C1: get_assets(dt) returns exactly the keys whose rule is true at dt (None:
\* never; threshold D: iff dt >= D; interval set s: iff s.active_on_date(dt)),
\* each once and in the map's iteration order.
C1_GetAssetsExact ==
    IsGetAssets(call) =>
        LET ret == call.ret
            active == {i \in 1..Len(asset_dates) :
                          Included(asset_dates[i].asset_date, call.dt)}
        IN /\ Members(ret) = {asset_dates[i].asset : i \in active}
           /\ Len(ret) = Cardinality(active)
           /\ \A k1, k2 \in 1..Len(ret) :
                  k1 < k2 => Position(ret[k1]) < Position(ret[k2])

C1_Witness ==
    /\ IsGetAssets(call)
    /\ Len(asset_dates) = 2
    /\ asset_dates[1].asset_date.type = "DynamicActiveDates"
    /\ asset_dates[2].asset_date.type = "Timestamp"
    /\ call.dt = asset_dates[2].asset_date.value
    /\ call.ret = <<asset_dates[1].asset, asset_dates[2].asset>>

C3_AnyInterval ==
    IsDatesCall(call) =>
        LET dates == call.self.dynamic_active_dates
            n == Len(dates)
            t == call.dt
        IN /\ call.ret = (\E k \in 1..n : active_on_date(dates[k], t))
           /\ n = 0 => call.ret = FALSE
           /\ n = 2 => call.ret = (active_on_date(dates[1], t) \/ active_on_date(dates[2], t))
           /\ \A p \in Permutations(1..n) :
                  dates_active_on_date(
                      DynamicActiveDates([k \in 1..n |-> dates[p[k]]]), t) = call.ret

C3_Witness ==
    /\ IsDatesCall(call)
    /\ Len(call.self.dynamic_active_dates) = 2
    /\ ~active_on_date(call.self.dynamic_active_dates[1], call.dt)
    /\ active_on_date(call.self.dynamic_active_dates[2], call.dt)
    /\ call.ret = TRUE

C5_ScenarioJuly ==
    IsGetAssets(call) /\ asset_dates = ScenarioUniverse /\ call.dt = 20200701 =>
        call.ret = <<"AAA">>

\* C6: in the end-to-end scenario, get_assets(2019-12-31) = [],
\* get_assets(2020-01-01) = [AAA], get_assets(2021-06-01) = [AAA, CCC], and
\* BBB is in none of the results.
C6_Scenario ==
    IsGetAssets(call) /\ asset_dates = ScenarioUniverse =>
        /\ call.dt = 20191231 => call.ret = <<>>
        /\ call.dt = 20200101 => call.ret = <<"AAA">>
        /\ call.dt = 20210601 => call.ret = <<"AAA", "CCC">>
        /\ "BBB" \notin Members(call.ret)

C6_Witness ==
    /\ asset_dates = ScenarioUniverse
    /\ IsGetAssets(seen) /\ seen.dt = 20200101 /\ seen.ret = <<"AAA">>
    /\ IsGetAssets(call) /\ call.dt = 20210601 /\ call.ret = <<"AAA", "CCC">>

\* C7: start and end are inclusive: for an interval with an end and
\* start <= end, active_on_date(dt) is true for start <= dt <= end and false
\* outside that range.
C7_InclusiveRange ==
    IsDateCall(call) /\ call.self.end # None
                     /\ call.self.start <= call.self.end.value =>
        call.ret = (call.self.start <= call.dt /\ call.dt <= call.self.end.value)

\* C8: get_assets is a read-only query: no call changes the asset map, its
\* interval sets or their intervals, and a call with the timestamp of an
\* earlier call returns the list that call returned, whatever was queried
\* in between.
C8_ReadOnly ==
    [][ /\ asset_dates' = asset_dates
        /\ IsGetAssets(call') /\ IsGetAssets(seen') /\ call'.dt = seen'.dt
               => call'.ret = seen'.ret ]_vars

C8_Witness ==
    /\ IsGetAssets(call) /\ IsGetAssets(seen)
    /\ call.dt = seen.dt
    /\ call.ret = seen.ret
    /\ Len(call.ret) = 1
    /\ Len(asset_dates) = 2

Crossing(lo, hi) ==
    \E i \in 1..Len(asset_dates) :
        LET d == asset_dates[i].asset_date IN
        \/ d.type = "Timestamp" /\ lo < d.value /\ d.value <= hi
        \/ /\ d.type = "DynamicActiveDates"
           /\ \E j \in 1..Len(d.dynamic_active_dates) :
                  LET a == d.dynamic_active_dates[j] IN
                  \/ lo < a.start /\ a.start <= hi
                  \/ a.end # None /\ lo <= a.end.value /\ a.end.value < hi

====
